---- MODULE Spec2Model ----
(***************************************************************************)
(* Model of the @overload decorator of overloading.py: Signature           *)
(* extraction, the per-name OverloadedFunction dispatch table, the         *)
(* OverloadRegistry attached to a module object, and the call-time         *)
(* dispatch on the tuple of runtime argument types.                        *)
(***************************************************************************)
EXTENDS Integers, Sequences, FiniteSets, TLC

VARIABLES
    registry,   \* module object -> its __overload_registry__ attribute
    heap,       \* the OverloadedFunction objects, by identity (index)
    globals,    \* defining module -> name -> OverloadedFunction the name is bound to
    trace,      \* the decorations executed so far, in order
    last        \* what the last decoration or call did

vars == <<registry, heap, globals, trace, last>>

----------------------------------------------------------------------------
(* Bounds of the model *)

MaxFns == 2       \* decorations performed in one behaviour

----------------------------------------------------------------------------
(* The inputs: modules, names, function definitions, arguments *)

\* Dotted module names, as the sequence of their components.
PkgA == <<"pkg", "a">>
PkgB == <<"pkg", "b">>
Main == <<"__main__">>
Scopes == { PkgA, PkgB, Main }

\* The module objects of the process: every scope and every top-level package.
ModuleObjects == Scopes \cup { <<s[1]>> : s \in Scopes }

Names == { "log", "f" }

\* Where a decorated function is defined: the module and the function's name.
DefSites == { <<PkgA, "log">>, <<PkgB, "log">>, <<Main, "log">>, <<Main, "f">> }

\* NoAnn is a parameter without annotation.
NoAnn == "<no annotation>"

ParamNames == << "a", "b", "c", "d" >>

\* The function definitions that are decorated: the positional parameters'
\* annotations, whether there is an annotated keyword-only parameter k,
\* whether the body assigns a local variable x, whether there is "-> None".
FnShapes ==
    { [params |-> <<"str">>,        kwonly |-> FALSE, locals |-> FALSE, ret |-> TRUE],
      [params |-> <<"str", "int">>, kwonly |-> FALSE, locals |-> FALSE, ret |-> TRUE],
      [params |-> <<"int">>,        kwonly |-> FALSE, locals |-> FALSE, ret |-> FALSE],
      [params |-> <<NoAnn>>,        kwonly |-> FALSE, locals |-> FALSE, ret |-> FALSE],
      [params |-> <<"int">>,        kwonly |-> FALSE, locals |-> TRUE,  ret |-> TRUE],
      [params |-> <<"str">>,        kwonly |-> TRUE,  locals |-> FALSE, ret |-> FALSE] }

\* Positional arguments of a call: values of class int, bool (a subclass of
\* int) and str, from no argument to more than any function declares.
ArgLists ==
    { <<>>, <<"1">>, <<"True">>, <<"'s'">>, <<"'s'", "1">>, <<"'s'", "1", "1">> }

\* Keyword arguments of a call.
KwargSets == { "{}", "{k=1}" }

\* fn.__code__.co_argcount: the positional parameters only.
co_argcount(fn) == Len(fn.params)

\* fn.__code__.co_varnames: positional parameters, keyword-only parameters,
\* then the local variables of the body.
co_varnames(fn) ==
    [i \in 1..Len(fn.params) |-> ParamNames[i]]
        \o (IF fn.kwonly THEN <<"k">> ELSE <<>>)
        \o (IF fn.locals THEN <<"x">> ELSE <<>>)

\* fn.__annotations__: name -> type for the annotated parameters, and "return".
AnnotationNames(fn) ==
    { ParamNames[i] : i \in { j \in 1..Len(fn.params) : fn.params[j] # NoAnn } }
        \cup (IF fn.kwonly THEN {"k"} ELSE {})
        \cup (IF fn.ret THEN {"return"} ELSE {})

Annotation(fn, name) ==
    IF name = "k" THEN "int"
    ELSE IF name = "return" THEN "None"
    ELSE fn.params[CHOOSE i \in 1..Len(fn.params) : ParamNames[i] = name]

----------------------------------------------------------------------------
(* class Signature *)

\* Signature.__signature: the annotation of every name of co_varnames other
\* than "return"; a name without annotation is a KeyError.
SignatureNames(fn) == SelectSeq(co_varnames(fn), LAMBDA name : name # "return")

SignatureRaises(fn) ==
    \E i \in 1..Len(SignatureNames(fn)) : SignatureNames(fn)[i] \notin AnnotationNames(fn)

SignatureArgs(fn) ==
    [i \in 1..Len(SignatureNames(fn)) |-> Annotation(fn, SignatureNames(fn)[i])]

\* Signature.__validate
Validate(fn) ==
    Cardinality({ name \in AnnotationNames(fn) : name # "return" }) = co_argcount(fn)

\* Signature.__init__ (reached only when __signature did not raise)
Signature(fn) ==
    [ sig       |-> SignatureArgs(fn),
      optional  |-> <<>>,
      valid     |-> Validate(fn),
      return_ty |-> IF "return" \in AnnotationNames(fn)
                    THEN Annotation(fn, "return") ELSE "<None>",
      name      |-> fn.name ]

\* hash() of a tuple of types: a function of the items in order, into a
\* bounded range, so that different tuples may collide.
HashMod == 4

TypeHash(t) == CASE t = "int" -> 1 [] t = "str" -> 2 [] t = "bool" -> 3 [] OTHER -> 0

RECURSIVE HashFrom(_, _)
HashFrom(h, t) ==
    IF t = <<>> THEN h ELSE HashFrom((3 * h + TypeHash(Head(t))) % HashMod, Tail(t))

HashTuple(t) == HashFrom(1, t)

\* Signature.__hash__
SigHash(self) == HashTuple(self.sig)

\* Mutant: a Signature without __eq__, compared by identity.
SigEqDefault(self, value) == FALSE

\* Signature.__eq__ against a bare tuple: self.sig == value
SigEq(self, value) == self.sig = value

\* Signature.__eq__ against another Signature: self.sig == other gives
\* NotImplemented from tuple, and the reflected other.__eq__(self.sig) decides.
SigEqSig(self, other) == SigEq(other, self.sig)

----------------------------------------------------------------------------
(* class OverloadedFunction: self.map is a dict, modelled as its entries in *)
(* insertion order, looked up by hash and then by the stored key's __eq__.  *)

\* OverloadedFunction.__init__
NewOverloadedFunction(name) == [name |-> name, map |-> <<>>]

\* self.map.get(argsTypes, None): 0 is None, otherwise the entry's index.
DictFind(map, argsTypes) ==
    LET hits == { i \in 1..Len(map) :
                    /\ SigHash(map[i].key) = HashTuple(argsTypes)
                    /\ SigEq(map[i].key, argsTypes) }
    IN  IF hits = {} THEN 0 ELSE CHOOSE i \in hits : \A j \in hits : i <= j

\* Mutant: every assignment adds an entry, an equal key is not recognised.
DictSetAppend(map, signature, fn) == Append(map, [key |-> signature, value |-> fn])

\* self.map[signature] = fn: an equal key keeps its place and gets the new
\* value, otherwise the entry is appended.
DictSet(map, signature, fn) ==
    LET hits == { i \in 1..Len(map) :
                    /\ SigHash(map[i].key) = SigHash(signature)
                    /\ SigEqSig(map[i].key, signature) }
    IN  IF hits = {}
        THEN Append(map, [key |-> signature, value |-> fn])
        ELSE LET i == CHOOSE k \in hits : \A j \in hits : k <= j
             IN  [map EXCEPT ![i].value = fn]

\* Mutant: the entry is written before the signature is validated.
BindInsertFirst(self, fn) ==
    IF SignatureRaises(fn)
    THEN [self |-> self, outcome |-> "KeyError"]
    ELSE [self |-> [self EXCEPT !.map = DictSet(self.map, Signature(fn), fn)],
          outcome |-> IF Signature(fn).valid THEN "ok" ELSE "TypeError"]

\* OverloadedFunction.bind: the object afterwards and how bind ended.
Bind(self, fn) ==
    IF SignatureRaises(fn)
    THEN [self |-> self, outcome |-> "KeyError"]
    ELSE IF ~Signature(fn).valid
    THEN [self |-> self, outcome |-> "TypeError"]
    ELSE [self |-> [self EXCEPT !.map = DictSet(self.map, Signature(fn), fn)],
          outcome |-> "ok"]

\* Mutant: the class an isinstance test would accept, bool taken as int.
TypeOfBase(v) == CASE v = "1" -> "int" [] v = "True" -> "int" [] v = "'s'" -> "str"

\* type(arg)
TypeOf(v) == CASE v = "1" -> "int" [] v = "True" -> "bool" [] v = "'s'" -> "str"

\* tuple(type(arg) for arg in args)
ArgsTypes(args) == [i \in 1..Len(args) |-> TypeOf(args[i])]

\* The body of a decorated function is opaque: its result records which
\* function ran and what it was given.
NoResult == [by |-> 0, args |-> <<>>, kwargs |-> "{}"]
Apply(fn, args, kwargs) == [by |-> fn.id, args |-> args, kwargs |-> kwargs]

\* The parts of an f-string: literal text and interpolated values.
Lit(s) == [kind |-> "text", text |-> s]

\* str(fn) of a function object: "<function NAME at 0x...>".
FnRepr(fn) == [kind |-> "function", qualname |-> fn.name, id |-> fn.id]

\* OverloadedFunction.__call__
Invoke(self, args, kwargs) ==
    LET argsTypes == ArgsTypes(args)
        i == DictFind(self.map, argsTypes)
    IN  IF i = 0
        THEN [outcome |-> "TypeError", invoked |-> <<>>, result |-> NoResult,
              message |-> <<Lit("Function "), FnRepr(self.name),
                            Lit(" does not have matching signature")>>]
        ELSE [outcome |-> "ok", invoked |-> <<self.map[i].value.id>>,
              result |-> Apply(self.map[i].value, args, kwargs),
              message |-> <<>>]

----------------------------------------------------------------------------
(* class OverloadRegistry *)

\* OverloadRegistry.__init__
NewRegistry == [present |-> TRUE, overloaded_functions |-> [n \in Names |-> 0]]

\* No __overload_registry__ attribute on the module object.
NoRegistry == [present |-> FALSE, overloaded_functions |-> [n \in Names |-> 0]]

\* Mutant: the lookup of the name never finds the existing object.
RegistryGetMiss(self, name) == 0

\* self.overloaded_functions.get(name, None): 0 is None.
RegistryGet(self, name) == self.overloaded_functions[name]

\* OverloadRegistry.overload over the heap hp of OverloadedFunction objects:
\* the registry and the heap afterwards, how it ended, and the object returned.
RegistryOverload(self, hp, fn) ==
    LET name == fn.name
        found == RegistryGet(self, name)
        o == IF found = 0 THEN Len(hp) + 1 ELSE found
        hp1 == IF found = 0 THEN Append(hp, NewOverloadedFunction(fn)) ELSE hp
        self1 == IF found = 0
                 THEN [self EXCEPT !.overloaded_functions[name] = o]
                 ELSE self
        b == Bind(hp1[o], fn)
    IN  [ self    |-> self1,
          heap    |-> [hp1 EXCEPT ![o] = b.self],
          outcome |-> b.outcome,
          ret     |-> IF b.outcome = "ok" THEN o ELSE 0 ]

----------------------------------------------------------------------------
(* The decorator and the state machine *)

\* __import__(scope) with an empty fromlist: the top-level package of a
\* dotted name.
Import(scope) == <<scope[1]>>

NoFn == [id |-> 0, module |-> <<>>, name |-> "", params |-> <<>>,
         kwonly |-> FALSE, locals |-> FALSE, ret |-> FALSE]

Init ==
    /\ registry = [m \in ModuleObjects |-> NoRegistry]
    /\ heap = <<>>
    /\ globals = [s \in Scopes |-> [n \in Names |-> 0]]
    /\ trace = <<>>
    /\ last = [op |-> "init", scope |-> <<>>, of |-> 0, fn |-> NoFn,
               args |-> <<>>, kwargs |-> "{}", outcome |-> "ok",
               invoked |-> <<>>, result |-> NoResult, message |-> <<>>]

\* "@overload def ...:" executed in module scope: overload(fn), and on
\* success the binding of the name to what the decorator returned.
Overload(scope, name, shape) ==
    /\ Len(trace) < MaxFns
    /\ LET fn == [id |-> Len(trace) + 1, module |-> scope, name |-> name,
                  params |-> shape.params, kwonly |-> shape.kwonly,
                  locals |-> shape.locals, ret |-> shape.ret]
           target == Import(scope)
           overload_registry == IF registry[target].present
                                THEN registry[target] ELSE NewRegistry
       IN  \E r \in { RegistryOverload(overload_registry, heap, fn) } :
             /\ registry' = [registry EXCEPT ![target] = r.self]
             /\ heap' = r.heap
             /\ globals' = IF r.outcome = "ok"
                           THEN [globals EXCEPT ![scope][name] = r.ret]
                           ELSE globals
             /\ trace' = Append(trace, [scope |-> scope, fn |-> fn,
                                        outcome |-> r.outcome, ret |-> r.ret])
             /\ last' = [op |-> "overload", scope |-> scope, of |-> r.ret,
                         fn |-> fn, args |-> <<>>, kwargs |-> "{}",
                         outcome |-> r.outcome, invoked |-> <<>>,
                         result |-> NoResult, message |-> <<>>]

\* A call of the name bound in a module: OverloadedFunction.__call__.
Call(scope, name, args, kwargs) ==
    /\ globals[scope][name] # 0
    /\ \E r \in { Invoke(heap[globals[scope][name]], args, kwargs) } :
         last' = [op |-> "call", scope |-> scope, of |-> globals[scope][name],
                  fn |-> NoFn, args |-> args, kwargs |-> kwargs,
                  outcome |-> r.outcome, invoked |-> r.invoked,
                  result |-> r.result, message |-> r.message]
    /\ UNCHANGED <<registry, heap, globals, trace>>

Next ==
    \/ \E site \in DefSites, shape \in FnShapes : Overload(site[1], site[2], shape)
    \/ \E scope \in Scopes, name \in Names, args \in ArgLists,
          kwargs \in KwargSets : Call(scope, name, args, kwargs)

Spec == Init /\ [][Next]_vars

----------------------------------------------------------------------------
(* Vocabulary of the properties *)

\* The class a value is an instance of (bool is a subclass of int).
ClassOf(v) == IF v = "1" THEN "int" ELSE IF v = "True" THEN "bool" ELSE "str"

ClassTuple(args) == [i \in 1..Len(args) |-> ClassOf(args[i])]

\* The positional-type tuple a function declares.
Declared(fn) == fn.params

FullyAnnotated(fn) == \A i \in 1..Len(fn.params) : fn.params[i] # NoAnn

\* The successful decorations that registered tuple t with object o.
Registrations(o, t) ==
    { k \in 1..Len(trace) :
        trace[k].outcome = "ok" /\ trace[k].ret = o /\ Declared(trace[k].fn) = t }

Latest(S) == CHOOSE k \in S : \A j \in S : j <= k

\* The implementations a dispatch table holds under tuple t.
Held(map, t) == { map[i].value : i \in { j \in 1..Len(map) : map[j].key.sig = t } }

IsCall == last.op = "call"
IsOverload == last.op = "overload"

\* A step that is a decoration which raised.
FailedOverloadStep ==
    /\ Len(trace') = Len(trace) + 1
    /\ trace'[Len(trace')].outcome # "ok"

----------------------------------------------------------------------------
(* Properties *)

\* C1: a call whose positional arguments' classes equal the tuple of a
\* registered function invokes exactly one implementation, one registered
\* under that tuple, with the original positional and keyword arguments,
\* and returns its result; the keyword arguments do not change the choice.
C1_DispatchByPositionalTypes ==
    IsCall /\ Registrations(last.of, ClassTuple(last.args)) # {} =>
        /\ last.outcome = "ok"
        /\ Len(last.invoked) = 1
        /\ last.invoked[1] \in Registrations(last.of, ClassTuple(last.args))
        /\ last.result = [by |-> last.invoked[1], args |-> last.args,
                          kwargs |-> last.kwargs]
        /\ \A kw \in KwargSets :
              Invoke(heap[last.of], last.args, kw).invoked = last.invoked

\* Two functions of distinct tuples are registered under one name, and a
\* call with keyword arguments reached the second one.
C1_Witness ==
    /\ IsCall /\ last.outcome = "ok" /\ last.kwargs = "{k=1}"
    /\ Len(heap[last.of].map) = 2
    /\ last.invoked = <<2>>
    /\ last.args = <<"'s'", "1">>

\* C2: a call whose tuple of exact argument classes was registered by no
\* decoration fails with TypeError and invokes no implementation, whatever
\* the number of arguments; an instance of a subclass does not match.
C2_NoMatchRaises ==
    IsCall /\ Registrations(last.of, ClassTuple(last.args)) = {} =>
        /\ last.outcome = "TypeError"
        /\ last.invoked = <<>>

\* A bool was passed to a name that has an overload for int, and the call
\* was refused.
C2_Witness ==
    /\ IsCall /\ last.args = <<"True">>
    /\ Registrations(last.of, <<"int">>) # {}
    /\ last.outcome = "TypeError"

\* No argument at all, and more arguments than any function declares.
C2_WitnessArity ==
    IsCall /\ last.outcome = "TypeError" /\ Len(last.args) \in {0, 3}

\* C3 (as claimed): decorating a function with a positional parameter
\* that has no annotation fails with the TypeError of bind.
C3_UnannotatedIsTypeError ==
    IsOverload /\ ~FullyAnnotated(last.fn) => last.outcome = "TypeError"

\* C4: a decoration that fails keeps, for every tuple registered before,
\* the implementation held under it, and every call that was dispatched
\* before is dispatched to the same implementation afterwards.
C4_FailedDecorationKeepsMap ==
    [][ FailedOverloadStep =>
          \A o \in 1..Len(heap) :
            /\ \A i \in 1..Len(heap[o].map) :
                  Held(heap'[o].map, heap[o].map[i].key.sig)
                      = { heap[o].map[i].value }
            /\ \A args \in ArgLists :
                  Invoke(heap[o], args, "{}").outcome = "ok" =>
                      Invoke(heap'[o], args, "{}") = Invoke(heap[o], args, "{}")
      ]_vars

\* A decoration failed on a name that already had an overload, and the
\* overload registered before it was then called.
C4_Witness ==
    /\ Len(trace) = 2
    /\ trace[1].outcome = "ok" /\ trace[2].outcome = "TypeError"
    /\ trace[1].scope = trace[2].scope /\ trace[1].fn.name = trace[2].fn.name
    /\ IsCall /\ last.invoked = <<1>>

\* C5: a dispatch table holds at most one implementation per tuple, and
\* a call with a registered tuple invokes the function registered last
\* under it.
C5_LastRegistrationWins ==
    /\ \A o \in 1..Len(heap) : \A i, j \in 1..Len(heap[o].map) :
          heap[o].map[i].key.sig = heap[o].map[j].key.sig => i = j
    /\ \A o \in 1..Len(heap) : \A k \in 1..Len(trace) :
          trace[k].outcome = "ok" /\ trace[k].ret = o =>
              Held(heap[o].map, Declared(trace[k].fn))
                  = { trace[Latest(Registrations(o, Declared(trace[k].fn)))].fn }
    /\ IsCall /\ Registrations(last.of, ClassTuple(last.args)) # {} =>
          last.invoked = << Latest(Registrations(last.of, ClassTuple(last.args))) >>

\* The same tuple was registered twice from one module under one name, and
\* a call with it ran the second function.
C5_Witness ==
    /\ Len(trace) = 2
    /\ trace[1].outcome = "ok" /\ trace[2].outcome = "ok"
    /\ trace[1].scope = trace[2].scope /\ trace[1].fn.name = trace[2].fn.name
    /\ Declared(trace[1].fn) = Declared(trace[2].fn)
    /\ IsCall /\ last.invoked = <<2>>

\* C6: in one module, every successful decoration of a name returns the
\* same OverloadedFunction, the one the module's registry holds for the
\* name, and that object holds every tuple registered through it.
C6_OneObjectPerName ==
    /\ \A j, k \in 1..Len(trace) :
          /\ trace[j].outcome = "ok" /\ trace[k].outcome = "ok"
          /\ trace[j].scope = trace[k].scope
          /\ trace[j].fn.name = trace[k].fn.name
          => trace[j].ret = trace[k].ret
    /\ \A k \in 1..Len(trace) :
          trace[k].outcome = "ok" =>
            /\ registry[<<trace[k].scope[1]>>].present
            /\ registry[<<trace[k].scope[1]>>].overloaded_functions[trace[k].fn.name]
                   = trace[k].ret
            /\ globals[trace[k].scope][trace[k].fn.name] = trace[k].ret
            /\ Held(heap[trace[k].ret].map, Declared(trace[k].fn)) # {}

\* Two different tuples were registered under one name in one module and
\* both are held by the one object.
C6_Witness ==
    /\ Len(trace) = 2
    /\ trace[1].outcome = "ok" /\ trace[2].outcome = "ok"
    /\ trace[1].scope = trace[2].scope /\ trace[1].fn.name = trace[2].fn.name
    /\ Declared(trace[1].fn) # Declared(trace[2].fn)
    /\ Len(heap) = 1 /\ Len(heap[1].map) = 2

\* C7 (as claimed): the overloads a module's name dispatches to were all
\* defined in that module; a decoration in another module adds none.
C7_RegistryPerModule ==
    \A s \in Scopes, n \in Names :
        globals[s][n] # 0 =>
            \A i \in 1..Len(heap[globals[s][n]].map) :
                heap[globals[s][n]].map[i].value.module = s

\* C8 (as claimed): the error of a call without matching overload names
\* the overloaded callable and the tuple of argument types of the call.
C8_ErrorNamesCallableAndTypes ==
    IsCall /\ last.outcome = "TypeError" =>
        /\ \E i \in 1..Len(last.message) :
              /\ last.message[i].kind = "function"
              /\ last.message[i].qualname = heap[last.of].name.name
        /\ \E i \in 1..Len(last.message) :
              /\ last.message[i].kind = "types"
              /\ last.message[i].types = ClassTuple(last.args)

\* C9 (as claimed): a function whose parameters are all positional and
\* annotated is registered under the tuple of its declared parameter
\* types, whatever its body and its return annotation.
C9_SignatureIsDeclaredTypes ==
    IsOverload /\ FullyAnnotated(last.fn) /\ ~last.fn.kwonly =>
        /\ last.outcome = "ok"
        /\ last.fn \in Held(heap[last.of].map, Declared(last.fn))

\* C10 (as claimed): every OverloadedFunction stored in a registry has at
\* least one bound implementation.
C10_NoEmptyEntry ==
    \A m \in ModuleObjects, n \in Names :
        registry[m].overloaded_functions[n] # 0 =>
            heap[registry[m].overloaded_functions[n]].map # <<>>

====
